---- MODULE Spec2Model ----
(***************************************************************************)
(* The process-lifecycle coordinator of the emulator's command             *)
(* (cmd/bigquery-emulator/main.go): run, runServer, the signal-watch       *)
(* goroutine, the serve goroutine, and the engine facade they call.        *)
(***************************************************************************)
EXTENDS Integers, Sequences, FiniteSets, TLC

(* ------------------------------------------------------------------ *)
(* Bounds and program constants                                        *)
(* ------------------------------------------------------------------ *)

\* How many termination signals the environment delivers in one run.
MaxSignals == 2

\* make(chan os.Signal, 1)
InterruptCap == 1

exitOK == 0
exitError == 1

(* ------------------------------------------------------------------ *)
(* Errors: an error is the chain of its messages, outermost first;      *)
(* Unwrap drops the outermost one; nil is the empty chain.              *)
(* ------------------------------------------------------------------ *)

Nil == <<>>

ErrServerClosed == <<"http: Server closed">>

WrappedClosed == <<"serve", "http: Server closed">>

ErrBind == <<"listen: address already in use">>

ErrCrash == <<"accept: listener failed">>

ErrProjectRequired == <<"the required flag --project was not specified">>

ErrStorage == <<"StorageError">>

ErrSetProject == <<"ConfigError: unknown tenant">>

ErrSeed == <<"SeedError">>

ErrLogLevel == <<"ConfigError: log level">>

ErrLogFormat == <<"ConfigError: log format">>

ErrStop == <<"ShutdownError">>

ErrDeadline == <<"context deadline exceeded">>

Unwrap(err) == IF Len(err) > 1 THEN Tail(err) ELSE Nil

RECURSIVE ErrorsIs(_, _)
ErrorsIs(err, target) ==
    IF err = Nil THEN FALSE
    ELSE IF err = target THEN TRUE
    ELSE ErrorsIs(Unwrap(err), target)

(* ------------------------------------------------------------------ *)
(* Configuration and values built from it                               *)
(* ------------------------------------------------------------------ *)

Options ==
    [ Version      : BOOLEAN,
      Project      : {"", "proj1"},
      Dataset      : {"", "ds1"},
      Database     : {"", "bq.db"},
      DataFromYAML : {"", "seed.yaml"} ]

TempStorage == <<":memory:">>

FileStorage(path) == <<"file:", path, "?cache=shared">>

NoProject == [ID |-> "", Datasets |-> <<>>]

\* context.Background(): never cancelled, no deadline.
Background == [deadline |-> FALSE]

ctx == Background

HasDeadline(c) == c.deadline

Signals == {"interrupt", "terminated"}

VARIABLES
    opt,          \* the parsed option struct
    pc,           \* where main/run/runServer is
    retErr,       \* what runServer returns
    exitCode,     \* the code passed to os.Exit, -1 while the process runs
    db,           \* the storage handle chosen
    project,      \* the initial project tree
    calls,        \* the engine facade calls made so far, with setup results
    given,        \* the argument of each of these calls
    stdout,       \* what was printed to os.Stdout
    stderr,       \* what was printed to os.Stderr
    notified,     \* signal.Notify has registered the interrupt channel
    interrupt,    \* the buffered interrupt channel
    sigCount,     \* signals the environment has delivered
    sigPc,        \* where the signal-watch goroutine is
    srvPc,        \* where the serve goroutine is
    listeners,    \* engine: the state of its two listeners
    stopState,    \* engine: the state of the Stop call
    serveResult,  \* engine: what Serve returned
    stopErr       \* engine: what Stop returned

vars == << opt, pc, retErr, exitCode, db, project, calls, given, stdout, stderr,
           notified, interrupt, sigCount, sigPc, srvPc, listeners,
           stopState, serveResult, stopErr >>

coreVars == << opt, db, project >>

taskVars == << notified, interrupt, sigCount, sigPc, srvPc >>

engVars == << listeners, stopState, serveResult, stopErr >>

outVars == << stdout, stderr >>

Init ==
    /\ opt \in Options
    /\ pc = "start"
    /\ retErr = Nil
    /\ exitCode = -1
    /\ db = <<>>
    /\ project = NoProject
    /\ calls = <<>>
    /\ given = <<>>
    /\ stdout = <<>>
    /\ stderr = <<>>
    /\ notified = FALSE
    /\ interrupt = <<>>
    /\ sigCount = 0
    /\ sigPc = "none"
    /\ srvPc = "none"
    /\ listeners = "unbound"
    /\ stopState = "idle"
    /\ serveResult = Nil
    /\ stopErr = Nil

Running == pc # "exited"

Call(op, err) == [op |-> op, err |-> err]

\* server.StructSource(project), as the names of the tree it carries.
StructSource(p) == <<p.ID>> \o p.Datasets

\* server.YAMLSource(path)
YAMLSource(path) == <<path>>

\* What runServer passes to the facade call op.
ArgOf(op) ==
    CASE op = "New"        -> db
      [] op = "SetProject" -> <<project.ID>>
      [] op = "LoadStruct" -> StructSource(project)
      [] op = "LoadYAML"   -> YAMLSource(opt.DataFromYAML)
      [] OTHER             -> <<>>

(* ------------------------------------------------------------------ *)
(* runServer: the setup phase                                           *)
(* ------------------------------------------------------------------ *)

\* return err from runServer
Return(err) ==
    /\ pc' = "returned"
    /\ retErr' = err

\* One facade call of the setup phase whose error, if any, is returned.
SetupCall(from, to, op, errs) ==
    /\ pc = from
    /\ \E err \in {Nil} \cup errs :
         /\ calls' = Append(calls, Call(op, err))
         /\ given' = Append(given, ArgOf(op))
         /\ IF err # Nil
              THEN Return(err)
              ELSE pc' = to /\ UNCHANGED retErr
    /\ UNCHANGED << exitCode, coreVars, taskVars, engVars, outVars >>

\* The same call with its error dropped: setup goes on after a failure.
SetupCallIgnoreErr(from, to, op, errs) ==
    /\ pc = from
    /\ \E err \in {Nil} \cup errs :
         /\ calls' = Append(calls, Call(op, err))
         /\ given' = Append(given, ArgOf(op))
         /\ pc' = to
         /\ UNCHANGED retErr
    /\ UNCHANGED << exitCode, coreVars, taskVars, engVars, outVars >>

CheckVersion ==
    /\ pc = "start"
    /\ IF opt.Version
         THEN /\ stdout' = Append(stdout, "version")
              /\ Return(Nil)
         ELSE /\ pc' = "checkProject"
              /\ UNCHANGED << stdout, retErr >>
    /\ UNCHANGED << exitCode, coreVars, calls, given, stderr, taskVars, engVars >>

\* A bug of CheckProject: the project flag is not checked.
CheckProjectSkipped ==
    /\ pc = "checkProject"
    /\ pc' = "selectStorage"
    /\ UNCHANGED << retErr, exitCode, coreVars, calls, given, taskVars, engVars, outVars >>

CheckProject ==
    /\ pc = "checkProject"
    /\ IF opt.Project = ""
         THEN Return(ErrProjectRequired)
         ELSE pc' = "selectStorage" /\ UNCHANGED retErr
    /\ UNCHANGED << exitCode, coreVars, calls, given, taskVars, engVars, outVars >>

\* A bug of SelectStorage: the file handle lacks the shared-cache mode.
SelectStoragePrivateCache ==
    /\ pc = "selectStorage"
    /\ db' = IF opt.Database = "" THEN TempStorage ELSE <<"file:", opt.Database>>
    /\ pc' = "newProject"
    /\ UNCHANGED << opt, project, retErr, exitCode, calls, given, taskVars, engVars, outVars >>

SelectStorage ==
    /\ pc = "selectStorage"
    /\ db' = IF opt.Database = "" THEN TempStorage ELSE FileStorage(opt.Database)
    /\ pc' = "newProject"
    /\ UNCHANGED << opt, project, retErr, exitCode, calls, given, taskVars, engVars, outVars >>

\* A bug of NewProject: the dataset is appended even when none is configured.
NewProjectAlwaysDataset ==
    /\ pc = "newProject"
    /\ project' = [ ID |-> opt.Project, Datasets |-> <<opt.Dataset>> ]
    /\ pc' = "new"
    /\ UNCHANGED << opt, db, retErr, exitCode, calls, given, taskVars, engVars, outVars >>

\* A bug of NewProject: the project is named after the dataset.
NewProjectNamedByDataset ==
    /\ pc = "newProject"
    /\ project' = [ ID |-> opt.Dataset,
                    Datasets |-> IF opt.Dataset # "" THEN <<opt.Dataset>> ELSE <<>> ]
    /\ pc' = "new"
    /\ UNCHANGED << opt, db, retErr, exitCode, calls, given, taskVars, engVars, outVars >>

NewProject ==
    /\ pc = "newProject"
    /\ project' = [ ID |-> opt.Project,
                    Datasets |-> IF opt.Dataset # "" THEN <<opt.Dataset>> ELSE <<>> ]
    /\ pc' = "new"
    /\ UNCHANGED << opt, db, retErr, exitCode, calls, given, taskVars, engVars, outVars >>

NewServer == SetupCall("new", "setProject", "New", {ErrStorage})

\* A bug of SetProject: its error is not returned.
SetProjectIgnoreErr ==
    SetupCallIgnoreErr("setProject", "loadStruct", "SetProject", {ErrSetProject})

SetProject == SetupCall("setProject", "loadStruct", "SetProject", {ErrSetProject})

\* A bug of LoadStruct: the structured seed is loaded only with a dataset.
LoadStructIfDataset ==
    IF opt.Dataset # ""
      THEN SetupCall("loadStruct", "setLogLevel", "LoadStruct", {ErrSeed})
      ELSE /\ pc = "loadStruct"
           /\ pc' = "setLogLevel"
           /\ UNCHANGED << retErr, exitCode, coreVars, calls, given, taskVars, engVars, outVars >>

LoadStruct == SetupCall("loadStruct", "setLogLevel", "LoadStruct", {ErrSeed})

\* A bug of SetLogLevel: its error is not returned.
SetLogLevelIgnoreErr ==
    SetupCallIgnoreErr("setLogLevel", "setLogFormat", "SetLogLevel", {ErrLogLevel})

SetLogLevel == SetupCall("setLogLevel", "setLogFormat", "SetLogLevel", {ErrLogLevel})

SetLogFormat == SetupCall("setLogFormat", "loadYAML", "SetLogFormat", {ErrLogFormat})

\* A bug of LoadYAML: a failed file-seed load does not stop the startup.
LoadYAMLIgnoreErr ==
    IF opt.DataFromYAML # ""
      THEN SetupCallIgnoreErr("loadYAML", "notify", "LoadYAML", {ErrSeed})
      ELSE /\ pc = "loadYAML"
           /\ pc' = "notify"
           /\ UNCHANGED << retErr, exitCode, coreVars, calls, given, taskVars, engVars, outVars >>

LoadYAML ==
    IF opt.DataFromYAML # ""
      THEN SetupCall("loadYAML", "notify", "LoadYAML", {ErrSeed})
      ELSE /\ pc = "loadYAML"
           /\ pc' = "notify"
           /\ UNCHANGED << retErr, exitCode, coreVars, calls, given, taskVars, engVars, outVars >>

(* ------------------------------------------------------------------ *)
(* runServer: starting the two goroutines and waiting for serve         *)
(* ------------------------------------------------------------------ *)

\* ctx, the interrupt channel, and signal.Notify
Notify ==
    /\ pc = "notify"
    /\ notified' = TRUE
    /\ interrupt' = <<>>
    /\ pc' = "spawnSignal"
    /\ UNCHANGED << retErr, exitCode, coreVars, calls, given, sigCount, sigPc, srvPc,
                    engVars, outVars >>

SpawnSignal ==
    /\ pc = "spawnSignal"
    /\ sigPc' = "select"
    /\ pc' = "spawnServe"
    /\ UNCHANGED << retErr, exitCode, coreVars, calls, given, notified, interrupt,
                    sigCount, srvPc, engVars, outVars >>

\* done := make(chan error) and the second go statement
SpawnServe ==
    /\ pc = "spawnServe"
    /\ srvPc' = "addrs"
    /\ pc' = "select"
    /\ UNCHANGED << retErr, exitCode, coreVars, calls, given, notified, interrupt,
                    sigCount, sigPc, engVars, outVars >>

\* The environment sends a signal; Notify's delivery never blocks, a signal
\* that finds the channel full is dropped.
DeliverSignal ==
    /\ Running
    /\ notified
    /\ sigCount < MaxSignals
    /\ \E s \in Signals :
         interrupt' = IF Len(interrupt) < InterruptCap
                        THEN Append(interrupt, s)
                        ELSE interrupt
    /\ sigCount' = sigCount + 1
    /\ UNCHANGED << pc, retErr, exitCode, coreVars, calls, given, notified, sigPc, srvPc,
                    engVars, outVars >>

(* ---------------- the signal-watch goroutine ---------------- *)

\* case s := <-interrupt, and the "receive ... shutdown gracefully" line
SigReceive ==
    /\ Running
    /\ sigPc = "select"
    /\ interrupt # <<>>
    /\ interrupt' = Tail(interrupt)
    /\ stdout' = Append(stdout, "receive")
    /\ sigPc' = "callStop"
    /\ UNCHANGED << pc, retErr, exitCode, coreVars, calls, given, notified, sigCount,
                    srvPc, engVars, stderr >>

\* A bug of SigCallStop: the goroutine ends without calling Stop.
SigCallStopMissing ==
    /\ Running
    /\ sigPc = "callStop"
    /\ sigPc' = "done"
    /\ UNCHANGED << pc, retErr, exitCode, coreVars, calls, given, notified, interrupt,
                    sigCount, srvPc, engVars, outVars >>

\* bqServer.Stop(ctx) is entered: with listeners bound the engine starts
\* to drain them, with none bound there is nothing to drain.
SigCallStop ==
    /\ Running
    /\ sigPc = "callStop"
    /\ calls' = Append(calls, Call("Stop", Nil))
    /\ given' = Append(given, ArgOf("Stop"))
    /\ stopState' = IF listeners = "bound" THEN "draining" ELSE "noop"
    /\ sigPc' = "stop"
    /\ UNCHANGED << pc, retErr, exitCode, coreVars, notified, interrupt, sigCount,
                    srvPc, listeners, serveResult, stopErr, outVars >>

\* A bug of SigStopReturn: the select sits in a loop, so after a Stop that
\* succeeded the goroutine waits for the next signal.
SigStopReturnLoop ==
    /\ Running
    /\ sigPc = "stop"
    /\ stopState \in {"noop", "drained", "expired"}
    /\ \E err \in (IF stopState = "expired" THEN {ErrDeadline} ELSE {Nil, ErrStop}) :
         /\ stopErr' = err
         /\ sigPc' = IF err # Nil THEN "report" ELSE "select"
    /\ UNCHANGED << pc, retErr, exitCode, coreVars, calls, given, notified, interrupt,
                    sigCount, srvPc, listeners, stopState, serveResult, outVars >>

\* bqServer.Stop(ctx) returns
SigStopReturn ==
    /\ Running
    /\ sigPc = "stop"
    /\ stopState \in {"noop", "drained", "expired"}
    /\ \E err \in (IF stopState = "expired" THEN {ErrDeadline} ELSE {Nil, ErrStop}) :
         /\ stopErr' = err
         /\ sigPc' = IF err # Nil THEN "report" ELSE "done"
    /\ UNCHANGED << pc, retErr, exitCode, coreVars, calls, given, notified, interrupt,
                    sigCount, srvPc, listeners, stopState, serveResult, outVars >>

\* The line "[bigquery-emulator] failed to stop: <err>".
FailedToStop(err) == <<"failed to stop">> \o err

\* the "failed to stop" line
SigReport ==
    /\ Running
    /\ sigPc = "report"
    /\ stderr' = Append(stderr, FailedToStop(stopErr))
    /\ sigPc' = "done"
    /\ UNCHANGED << pc, retErr, exitCode, coreVars, calls, given, notified, interrupt,
                    sigCount, srvPc, engVars, stdout >>

(* ---------------- the serve goroutine ---------------- *)

\* the two "listening at" lines
SrvPrint ==
    /\ Running
    /\ srvPc = "addrs"
    /\ stdout' = stdout \o <<"REST listening", "gRPC listening">>
    /\ srvPc' = "callServe"
    /\ UNCHANGED << pc, retErr, exitCode, coreVars, calls, given, notified, interrupt,
                    sigCount, sigPc, engVars, stderr >>

\* bqServer.Serve(ctx, httpAddr, grpcAddr) is entered
SrvCallServe ==
    /\ Running
    /\ srvPc = "callServe"
    /\ calls' = Append(calls, Call("Serve", Nil))
    /\ given' = Append(given, ArgOf("Serve"))
    /\ srvPc' = "serve"
    /\ UNCHANGED << pc, retErr, exitCode, coreVars, notified, interrupt, sigCount,
                    sigPc, engVars, outVars >>

\* What Serve returns for the way its listeners ended.
ServeOutcomes(l) ==
    CASE l = "closed"     -> {ErrServerClosed, WrappedClosed}
      [] l = "bindfailed" -> {ErrBind}
      [] l = "crashed"    -> {ErrCrash}
      [] OTHER            -> {}

\* A bug of SrvServeReturn: Serve is called again after a listener error.
SrvServeRetry ==
    /\ Running
    /\ srvPc = "serve"
    /\ \E r \in ServeOutcomes(listeners) :
         /\ serveResult' = r
         /\ IF ErrorsIs(r, ErrServerClosed)
              THEN srvPc' = "send" /\ UNCHANGED listeners
              ELSE srvPc' = "serve" /\ listeners' = "unbound"
    /\ UNCHANGED << pc, retErr, exitCode, coreVars, calls, given, notified, interrupt,
                    sigCount, sigPc, stopState, stopErr, outVars >>

\* bqServer.Serve returns; the goroutine goes on to send on done
SrvServeReturn ==
    /\ Running
    /\ srvPc = "serve"
    /\ \E r \in ServeOutcomes(listeners) :
         serveResult' = r
    /\ srvPc' = "send"
    /\ UNCHANGED << pc, retErr, exitCode, coreVars, calls, given, notified, interrupt,
                    sigCount, sigPc, listeners, stopState, stopErr, outVars >>

(* ---------------- the engine, inside Serve and Stop ---------------- *)

\* How an attempt to bind the two listeners can end. What Serve does when
\* Stop was called before it is left open by the engine's contract: it either
\* binds as usual or returns the closed sentinel at once.
BindOutcomes ==
    {"bound", "bindfailed"} \cup (IF stopState # "idle" THEN {"closed"} ELSE {})

EngBind ==
    /\ Running
    /\ srvPc = "serve"
    /\ listeners = "unbound"
    /\ \E l \in BindOutcomes : listeners' = l
    /\ UNCHANGED << pc, retErr, exitCode, coreVars, calls, given, taskVars, stopState,
                    serveResult, stopErr, outVars >>

\* a listener fails irrecoverably while serving
EngCrash ==
    /\ Running
    /\ listeners = "bound"
    /\ listeners' = "crashed"
    /\ UNCHANGED << pc, retErr, exitCode, coreVars, calls, given, taskVars, stopState,
                    serveResult, stopErr, outVars >>

\* How a drain can end under the context given to Stop.
DrainEnds(c) == {"drained"} \cup (IF HasDeadline(c) THEN {"expired"} ELSE {})

\* The drain that Stop started ends: the listeners have closed, or the
\* deadline of Stop's context has passed and the engine force-closes them.
EngDrainEnd(how) ==
    /\ Running
    /\ stopState = "draining"
    /\ how \in DrainEnds(ctx)
    /\ stopState' = how
    /\ listeners' = IF listeners = "bound" THEN "closed" ELSE listeners
    /\ UNCHANGED << pc, retErr, exitCode, coreVars, calls, given, taskVars, serveResult,
                    stopErr, outVars >>

(* ---------------- the coordinator's select, and run ---------------- *)

\* A bug of CoordReceive: the closed sentinel is not told from a failure.
CoordReceiveNoSentinel ==
    /\ pc = "select"
    /\ srvPc = "send"
    /\ srvPc' = "done"
    /\ Return(serveResult)
    /\ UNCHANGED << exitCode, coreVars, calls, given, notified, interrupt, sigCount,
                    sigPc, engVars, outVars >>

\* A bug of CoordReceive: the coordinator also waits for the signal-watch
\* goroutine to end before it takes the result.
CoordReceiveJoin ==
    /\ pc = "select"
    /\ srvPc = "send"
    /\ sigPc = "done"
    /\ srvPc' = "done"
    /\ Return(IF ErrorsIs(serveResult, ErrServerClosed) THEN Nil ELSE serveResult)
    /\ UNCHANGED << exitCode, coreVars, calls, given, notified, interrupt, sigCount,
                    sigPc, engVars, outVars >>

\* done <- result meets case err := <-done (the channel is unbuffered)
CoordReceive ==
    /\ pc = "select"
    /\ srvPc = "send"
    /\ srvPc' = "done"
    /\ Return(IF ErrorsIs(serveResult, ErrServerClosed) THEN Nil ELSE serveResult)
    /\ UNCHANGED << exitCode, coreVars, calls, given, notified, interrupt, sigCount,
                    sigPc, engVars, outVars >>

\* A bug of RunExit: run drops runServer's error and exits with exitOK.
RunExitDropsErr ==
    /\ pc = "returned"
    /\ exitCode' = exitOK
    /\ pc' = "exited"
    /\ UNCHANGED << retErr, coreVars, calls, given, taskVars, engVars, outVars >>

\* run maps runServer's error to the exit code; main calls os.Exit
RunExit ==
    /\ pc = "returned"
    /\ IF retErr # Nil
         THEN /\ stderr' = Append(stderr, retErr)
              /\ exitCode' = exitError
         ELSE /\ UNCHANGED stderr
              /\ exitCode' = exitOK
    /\ pc' = "exited"
    /\ UNCHANGED << retErr, coreVars, calls, given, taskVars, engVars, stdout >>

Setup ==
    \/ CheckVersion
    \/ CheckProject
    \/ SelectStorage
    \/ NewProject
    \/ NewServer
    \/ SetProject
    \/ LoadStruct
    \/ SetLogLevel
    \/ SetLogFormat
    \/ LoadYAML

Coordinator ==
    \/ Notify
    \/ SpawnSignal
    \/ SpawnServe
    \/ CoordReceive
    \/ RunExit

SignalTask ==
    \/ SigReceive
    \/ SigCallStop
    \/ SigStopReturn
    \/ SigReport

ServeTask ==
    \/ SrvPrint
    \/ SrvCallServe
    \/ SrvServeReturn

Engine ==
    \/ EngBind
    \/ EngCrash
    \/ \E how \in {"drained", "expired"} : EngDrainEnd(how)

Next ==
    \/ Setup
    \/ Coordinator
    \/ SignalTask
    \/ ServeTask
    \/ Engine
    \/ DeliverSignal

Spec == Init /\ [][Next]_vars

\* The goroutines and the engine are scheduled fairly; time passes, so a
\* deadline expires. Nothing makes a drain complete, a listener crash, or
\* the environment send a signal.
Progress ==
    /\ WF_vars(Setup)
    /\ WF_vars(Coordinator)
    /\ WF_vars(SignalTask)
    /\ WF_vars(ServeTask)
    /\ WF_vars(EngBind)
    /\ WF_vars(EngDrainEnd("expired"))

FairSpec == Spec /\ Progress

\* FairSpec with a drain that completes once started.
DrainSpec == FairSpec /\ WF_vars(EngDrainEnd("drained"))

(* ------------------------------------------------------------------ *)
(* Vocabulary of the properties                                         *)
(* ------------------------------------------------------------------ *)

SetupOps == {"New", "SetProject", "LoadStruct", "SetLogLevel", "SetLogFormat", "LoadYAML"}

Called(op) == \E i \in DOMAIN calls : calls[i].op = op

Succeeded(op) == \E i \in DOMAIN calls : calls[i].op = op /\ calls[i].err = Nil

FailedAt(i) == calls[i].op \in SetupOps /\ calls[i].err # Nil

Before(opA, opB) ==
    \A i, j \in DOMAIN calls : (calls[i].op = opA /\ calls[j].op = opB) => i < j

Count(seq, x) == Cardinality({i \in DOMAIN seq : seq[i] = x})

Printed(out, x) == Count(out, x) > 0

\* err is the closed sentinel or wraps it at some depth.
IsClosed(err) == \E k \in 1..Len(err) : SubSeq(err, k, Len(err)) = ErrServerClosed

Stopped == pc \in {"returned", "exited"}

NoTasks == ~notified /\ sigPc = "none" /\ srvPc = "none"

\* Something of the serving phase has happened.
ServingBegun ==
    \/ notified
    \/ sigPc # "none"
    \/ srvPc # "none"
    \/ Called("Serve")
    \/ Called("Stop")
    \/ Printed(stdout, "REST listening")
    \/ Printed(stdout, "gRPC listening")
    \/ listeners # "unbound"

\* Every setup step has been taken and has succeeded.
SetupDone ==
    /\ db # <<>>
    /\ project.ID = opt.Project
    /\ \A op \in SetupOps \ {"LoadYAML"} : Succeeded(op)
    /\ opt.DataFromYAML # "" => Succeeded("LoadYAML")
    /\ \A i \in DOMAIN calls : ~FailedAt(i)
    /\ \A op \in SetupOps : Before(op, "Serve") /\ Before(op, "Stop")

(* ------------------------------------------------------------------ *)
(* C1                                                                   *)
(* ------------------------------------------------------------------ *)

\* C1: serve, the printing of the listener addresses and the spawning of
\* the two goroutines happen only after storage selection, engine
\* construction, SetProject, the structured-seed load, the log settings
\* and, with a seed file configured, the file-seed load have all succeeded.
C1_ServeOnlyAfterSetup == ServingBegun => SetupDone

C1_Witness ==
    /\ opt.DataFromYAML # ""
    /\ Called("Serve")
    /\ Printed(stdout, "gRPC listening")
    /\ listeners = "bound"
    /\ sigPc = "select"

(* ------------------------------------------------------------------ *)
(* C2                                                                   *)
(* ------------------------------------------------------------------ *)

\* What holds once a setup step has failed with err.
Aborted(err) ==
    /\ Stopped
    /\ retErr = err
    /\ NoTasks
    /\ listeners = "unbound"
    /\ ~Called("Serve")
    /\ ~Called("Stop")
    /\ pc = "exited" => (exitCode = exitError /\ stderr = <<err>>)

\* C2: a failed setup step (missing project, New, SetProject, either load,
\* either log setting) makes runServer return that error at once: the failed
\* call is the last call ever made (no later step, no retry), no goroutine is
\* spawned, Serve and Stop are never called, and run exits with code 1.
C2_SetupFailureAborts ==
    /\ \A i \in DOMAIN calls :
         FailedAt(i) => (i = Len(calls) /\ Aborted(calls[i].err))
    /\ (~opt.Version /\ opt.Project = "" /\ pc \notin {"start", "checkProject"})
         => (calls = <<>> /\ db = <<>> /\ Aborted(ErrProjectRequired))

C2_Witness ==
    /\ pc = "exited"
    /\ exitCode = exitError
    /\ Len(calls) = 4
    /\ calls[4] = Call("SetLogLevel", ErrLogLevel)

(* ------------------------------------------------------------------ *)
(* C3                                                                   *)
(* ------------------------------------------------------------------ *)

\* C3: once the goroutines are started, the exit code is decided by what
\* Serve returned and by nothing else: 0 for the closed sentinel or an error
\* wrapping it, 1 with the error printed for any other error, whatever Stop
\* did and whether or not a signal came.
C3_ExitCodeFromServeOnly ==
    (pc = "exited" /\ srvPc # "none") =>
        /\ srvPc = "done"
        /\ IF IsClosed(serveResult)
             THEN exitCode = exitOK /\ Count(stderr, serveResult) = 0
             ELSE /\ serveResult # Nil
                  /\ exitCode = exitError
                  /\ Count(stderr, serveResult) = 1

\* Exit 0 on a wrapped sentinel while Stop has failed and is not yet reported.
C3_Witness ==
    /\ pc = "exited"
    /\ exitCode = exitOK
    /\ serveResult = WrappedClosed
    /\ stopErr = ErrStop
    /\ sigPc = "report"

(* ------------------------------------------------------------------ *)
(* C4                                                                   *)
(* ------------------------------------------------------------------ *)

\* A termination signal has been delivered and waits in the channel while
\* the engine is serving.
SignalWhileServing == Running /\ listeners = "bound" /\ interrupt # <<>>

\* The run ended the graceful way: Stop was called after Serve, Serve
\* returned the closed sentinel, the coordinator received it, exit code 0.
GracefulExit ==
    /\ pc = "exited"
    /\ exitCode = exitOK
    /\ Called("Stop")
    /\ Before("Serve", "Stop")
    /\ IsClosed(serveResult)
    /\ srvPc = "done"

\* C4 as claimed: a termination signal delivered while the engine is serving
\* leads, under fair scheduling and a drain that completes, to exit code 0.
C4_SignalLeadsToExitOK ==
    SignalWhileServing ~> (pc = "exited" /\ exitCode = exitOK)

\* C4 as amended: a termination signal delivered while the engine is serving
\* and the signal-watch goroutine is still waiting for its first signal
\* leads, under fair scheduling and a drain that completes, to process exit;
\* the exit is the graceful one with code 0 unless a listener failed first,
\* in which case Serve's listener error decides.
C4_ShutdownLaw ==
    (SignalWhileServing /\ sigPc = "select")
        ~> (GracefulExit \/ (pc = "exited" /\ serveResult = ErrCrash))

C4_Witness ==
    /\ GracefulExit
    /\ Printed(stdout, "receive")
    /\ stopState = "drained"
    /\ sigPc = "done"
    /\ stopErr = Nil

(* ------------------------------------------------------------------ *)
(* C5                                                                   *)
(* ------------------------------------------------------------------ *)

\* C5: Stop's context carries a deadline, so once a termination signal has
\* made the engine drain, the process exits even if the drain never
\* completes: at the deadline Stop returns an error, the listeners are
\* force-closed and Serve's result reaches the coordinator.
C5_DrainingLeadsToExit ==
    (stopState = "draining") ~> (pc = "exited")

(* ------------------------------------------------------------------ *)
(* C6                                                                   *)
(* ------------------------------------------------------------------ *)

\* C6 as claimed: with an empty project the run ends with the configuration
\* error and exit code 1, the engine never constructed, no listener started.
C6_EmptyProjectExits1 ==
    (opt.Project = "" /\ pc = "exited") =>
        /\ exitCode = exitError
        /\ retErr = ErrProjectRequired
        /\ calls = <<>>
        /\ listeners = "unbound"

\* C6 as amended: with an empty project the engine is never constructed and
\* no listener or goroutine is ever started; the run ends with the
\* configuration error and exit code 1 unless the version flag is set, in
\* which case it prints the version and exits 0.
C6_EmptyProject ==
    opt.Project = "" =>
        /\ calls = <<>>
        /\ db = <<>>
        /\ NoTasks
        /\ listeners = "unbound"
        /\ pc = "exited" =>
             IF opt.Version
               THEN exitCode = exitOK /\ retErr = Nil /\ stdout = <<"version">>
               ELSE /\ exitCode = exitError
                    /\ retErr = ErrProjectRequired
                    /\ stderr = <<ErrProjectRequired>>

C6_Witness ==
    /\ opt.Project = ""
    /\ ~opt.Version
    /\ pc = "exited"
    /\ exitCode = exitError

(* ------------------------------------------------------------------ *)
(* C7                                                                   *)
(* ------------------------------------------------------------------ *)

IsLoad(c) == c.op \in {"LoadStruct", "LoadYAML"}

Loads == SelectSeq(calls, IsLoad)

\* C7: Load is called at most twice, the structured seed first and whatever
\* the dataset option, the file seed second and only with a seed file
\* configured and the structured seed loaded; once setup is past the seed
\* stage the structured seed has been loaded, and once setup is complete the
\* file seed has been loaded exactly when a seed file is configured.
C7_SeedOrder ==
    /\ Len(Loads) <= 2
    /\ \A i \in DOMAIN Loads :
         Loads[i].op = (IF i = 1 THEN "LoadStruct" ELSE "LoadYAML")
    /\ Called("LoadYAML") => (opt.DataFromYAML # "" /\ Succeeded("LoadStruct"))
    /\ Called("SetLogLevel") => Called("LoadStruct")
    /\ notified => (Called("LoadYAML") <=> opt.DataFromYAML # "")

C7_Witness ==
    /\ opt.Dataset = ""
    /\ Len(Loads) = 2
    /\ Loads[2] = Call("LoadYAML", Nil)
    /\ notified

(* ------------------------------------------------------------------ *)
(* C8                                                                   *)
(* ------------------------------------------------------------------ *)

\* C8: when the Stop that a termination signal caused while the engine was
\* serving has failed, its failure has been printed exactly once by the time
\* the process exits.
C8_StopFailureReportedOnce ==
    (pc = "exited" /\ stopErr # Nil /\ stopState = "drained")
        => Count(stderr, FailedToStop(stopErr)) = 1

(* ------------------------------------------------------------------ *)
(* C9                                                                   *)
(* ------------------------------------------------------------------ *)

\* The lifecycle state of the data model, read off the process: Stopped once
\* runServer has returned, Draining once Stop was called or a listener
\* failed, Serving while both listeners are bound, Starting before.
Lifecycle ==
    IF Stopped THEN "Stopped"
    ELSE IF stopState # "idle" \/ listeners \in {"bindfailed", "crashed"} THEN "Draining"
    ELSE IF listeners = "bound" THEN "Serving"
    ELSE "Starting"

Rank(state) ==
    CASE state = "Starting" -> 0
      [] state = "Serving"  -> 1
      [] state = "Draining" -> 2
      [] state = "Stopped"  -> 3

\* C9 as claimed: after setup the state changes only along
\* Starting -> Serving -> Draining -> Stopped, one state at a time.
C9_ExactPath ==
    [][ (notified /\ Lifecycle' # Lifecycle) =>
          << Lifecycle, Lifecycle' >> \in { << "Starting", "Serving" >>,
                                            << "Serving", "Draining" >>,
                                            << "Draining", "Stopped" >> } ]_vars

\* C9 as amended: the state never goes back to an earlier one; Serving is
\* entered only from Starting, when the listeners bind; after setup Stopped
\* is entered only from Draining; but Serving can be skipped (Starting to
\* Draining on a bind failure or on a Stop called before the listeners bind).
C9_ForwardOnly ==
    [][ /\ Rank(Lifecycle') >= Rank(Lifecycle)
        /\ (Lifecycle' = "Serving" /\ Lifecycle # "Serving")
             => (Lifecycle = "Starting" /\ listeners' = "bound")
        /\ (notified /\ Lifecycle' = "Stopped" /\ Lifecycle # "Stopped")
             => Lifecycle = "Draining" ]_vars

\* Stopped after a bind failure: Serving was never entered.
C9_Witness ==
    /\ pc = "exited"
    /\ serveResult = ErrBind
    /\ stopState = "idle"
    /\ exitCode = exitError

(* ------------------------------------------------------------------ *)
(* C10                                                                  *)
(* ------------------------------------------------------------------ *)

\* C10: after a termination signal has made the engine drain its listeners,
\* the process does not exit before the Stop call has returned: it never
\* exits while Stop is still in progress.
C10_ExitOnlyAfterStopReturned ==
    (pc = "exited" /\ stopState = "drained") => sigPc # "stop"

(* ------------------------------------------------------------------ *)
(* C11                                                                  *)
(* ------------------------------------------------------------------ *)

\* The handle the configuration asks for.
HandleFor(o) ==
    IF o.Database = "" THEN TempStorage
    ELSE <<"file:", o.Database, "?cache=shared">>

CallsOf(op) == {i \in DOMAIN calls : calls[i].op = op}

\* C11: storage selection cannot fail and is decided once, before the engine
\* is constructed: the in-memory handle for an empty database path, the
\* handle file:p?cache=shared for a path p; New is called at most once, with
\* that handle, which is then neither changed nor passed to any other call.
C11_StorageSelectedOnce ==
    /\ db \in {<<>>, HandleFor(opt)}
    /\ (~opt.Version /\ opt.Project # ""
          /\ pc \notin {"start", "checkProject", "selectStorage"})
         => db = HandleFor(opt)
    /\ Cardinality(CallsOf("New")) <= 1
    /\ \A i \in DOMAIN calls :
         IF calls[i].op = "New"
           THEN given[i] = HandleFor(opt) /\ db = given[i]
           ELSE given[i] # HandleFor(opt)

C11_Witness ==
    /\ opt.Database = "bq.db"
    /\ Succeeded("New")
    /\ db = <<"file:", "bq.db", "?cache=shared">>
    /\ listeners = "bound"

(* ------------------------------------------------------------------ *)
(* C12                                                                  *)
(* ------------------------------------------------------------------ *)

\* The engine has been told of tenant id by a call made before call i: a
\* structured seed carrying that tenant was loaded.
KnownBefore(id, i) ==
    \E j \in 1..(i - 1) :
        /\ calls[j] = Call("LoadStruct", Nil)
        /\ given[j][1] = id

\* C12 as claimed: SetProject(id) is called only after the tenant id has been
\* created and made known to the engine.
C12_TenantKnownBeforeSetProject ==
    \A i \in CallsOf("SetProject") : KnownBefore(given[i][1], i)

\* C12 as amended: SetProject(id) is called after the project object with that
\* id was built from the options and the engine was constructed, but before
\* any Load: the structured seed that carries the tenant is loaded only after
\* SetProject(id) has succeeded, and a failing SetProject aborts the startup.
C12_SetProjectBeforeLoad ==
    /\ \A i \in CallsOf("SetProject") :
         /\ opt.Project # ""
         /\ project.ID = opt.Project
         /\ given[i] = <<opt.Project>>
         /\ \E j \in 1..(i - 1) : calls[j] = Call("New", Nil)
         /\ \A j \in 1..(i - 1) : calls[j].op \notin {"LoadStruct", "LoadYAML"}
         /\ calls[i].err # Nil => Aborted(calls[i].err)
    /\ \A j \in CallsOf("LoadStruct") :
         \E i \in 1..(j - 1) :
             /\ calls[i] = Call("SetProject", Nil)
             /\ given[i][1] = given[j][1]

C12_Witness ==
    /\ Len(calls) >= 3
    /\ calls[2] = Call("SetProject", Nil)
    /\ calls[3] = Call("LoadStruct", Nil)
    /\ given[2] = <<"proj1">>
    /\ given[3][1] = "proj1"

(* ------------------------------------------------------------------ *)
(* C13                                                                  *)
(* ------------------------------------------------------------------ *)

\* The signal-watch goroutine has taken its signal.
WatchFired == sigPc \notin {"none", "select"}

\* C13: the signal-watch goroutine fires at most once: whatever signals
\* arrive, at most one is received and Stop is called at most once; once the
\* goroutine has fired it never waits for a signal again, a later signal is
\* never taken from the channel, and its arrival changes nothing of the
\* coordinator, the calls made or the exit code.
C13_WatchFiresOnce ==
    /\ [](Cardinality(CallsOf("Stop")) <= 1 /\ Count(stdout, "receive") <= 1)
    /\ [][ WatchFired =>
             /\ WatchFired'
             /\ Len(interrupt') >= Len(interrupt)
             /\ sigCount' # sigCount =>
                  /\ << pc, retErr, exitCode, calls, given >>' =
                     << pc, retErr, exitCode, calls, given >>
                  /\ << sigPc, srvPc, engVars, outVars >>' =
                     << sigPc, srvPc, engVars, outVars >> ]_vars

\* A second signal has arrived while the Stop caused by the first is draining.
C13_Witness ==
    /\ sigCount = 2
    /\ sigPc = "stop"
    /\ stopState = "draining"
    /\ interrupt # <<>>
    /\ Cardinality(CallsOf("Stop")) = 1

(* ------------------------------------------------------------------ *)
(* C14                                                                  *)
(* ------------------------------------------------------------------ *)

DatasetNames(p) == {p.Datasets[i] : i \in DOMAIN p.Datasets}

\* The project object has been built.
ProjectBuilt ==
    /\ ~opt.Version
    /\ opt.Project # ""
    /\ pc \notin {"start", "checkProject", "selectStorage", "newProject"}

\* C14: the initial project tree is a function of the configuration alone:
\* once built, its identifier is the configured project and its set of
\* dataset names is {dataset} for a configured dataset and empty otherwise,
\* with no dataset listed twice; it is never changed afterwards and it is
\* the tree handed to the structured-seed load.
C14_ProjectTreeFromConfig ==
    /\ ProjectBuilt =>
         /\ project.ID = opt.Project
         /\ DatasetNames(project) = (IF opt.Dataset # "" THEN {opt.Dataset} ELSE {})
         /\ Len(project.Datasets) = Cardinality(DatasetNames(project))
    /\ ~ProjectBuilt => project = NoProject
    /\ \A i \in CallsOf("LoadStruct") :
         /\ given[i][1] = opt.Project
         /\ {given[i][k] : k \in 2..Len(given[i])} =
              (IF opt.Dataset # "" THEN {opt.Dataset} ELSE {})

C14_Witness ==
    /\ opt.Project = "proj1"
    /\ opt.Dataset = ""
    /\ project = [ID |-> "proj1", Datasets |-> <<>>]
    /\ Succeeded("LoadStruct")

(* ------------------------------------------------------------------ *)
(* C15                                                                  *)
(* ------------------------------------------------------------------ *)

\* Serve has returned an error that is not the closed sentinel, and no
\* termination signal has been delivered.
ServeFailedUnsignalled ==
    /\ srvPc \in {"send", "done"}
    /\ ~IsClosed(serveResult)
    /\ sigCount = 0

\* C15: when Serve returns a listener error and no signal was received, the
\* process exits with code 1 having printed that error once, Stop is never
\* called, and the exit happens although the signal-watch goroutine is still
\* blocked waiting for a signal.
C15_ListenerErrorExits1 ==
    /\ []( ServeFailedUnsignalled =>
             /\ serveResult \in {ErrBind, ErrCrash}
             /\ ~Called("Stop")
             /\ sigPc = "select"
             /\ pc = "exited" =>
                  (exitCode = exitError /\ stderr = <<serveResult>>) )
    /\ ( ServeFailedUnsignalled ~>
           (pc = "exited" /\ exitCode = exitError /\ Count(stderr, serveResult) = 1) )

C15_Witness ==
    /\ pc = "exited"
    /\ exitCode = exitError
    /\ serveResult = ErrCrash
    /\ sigCount = 0
    /\ sigPc = "select"
    /\ stderr = <<ErrCrash>>

(* ------------------------------------------------------------------ *)
(* C16                                                                  *)
(* ------------------------------------------------------------------ *)

LogOps == {"SetLogLevel", "SetLogFormat"}

\* Both seed sources that the configuration names have been loaded.
SeedsApplied ==
    /\ Succeeded("LoadStruct")
    /\ opt.DataFromYAML # "" => Succeeded("LoadYAML")

\* C16 as claimed: the log setters are called only once seed application
\* (structured, then the optional file) is complete, and no startup is ever
\* aborted by one of them.
C16_LogSettersAfterSeedsNeverFail ==
    /\ (Called("SetLogLevel") \/ Called("SetLogFormat")) => SeedsApplied
    /\ Stopped => retErr \notin {ErrLogLevel, ErrLogFormat}

\* C16 as amended: the log level and then the log format are set after the
\* structured seed has been loaded and before the optional file seed is; each
\* setter returns an error to runServer, and an error from either aborts the
\* startup (no later call, no goroutine, exit code 1).
C16_LogSettersBetweenSeeds ==
    /\ \A i \in DOMAIN calls :
         calls[i].op \in LogOps =>
           /\ \E j \in 1..(i - 1) : calls[j] = Call("LoadStruct", Nil)
           /\ \A j \in 1..(i - 1) : calls[j].op # "LoadYAML"
           /\ calls[i].err # Nil => (i = Len(calls) /\ Aborted(calls[i].err))
    /\ \A j \in CallsOf("LoadYAML") :
         /\ \E i \in 1..(j - 1) : calls[i] = Call("SetLogLevel", Nil)
         /\ \E i \in 1..(j - 1) : calls[i] = Call("SetLogFormat", Nil)
    /\ Before("SetLogLevel", "SetLogFormat")

\* A log-format error has ended a run whose seed file was never loaded.
C16_Witness ==
    /\ pc = "exited"
    /\ exitCode = exitError
    /\ retErr = ErrLogFormat
    /\ opt.DataFromYAML # ""
    /\ ~Called("LoadYAML")

(* ------------------------------------------------------------------ *)
(* C17                                                                  *)
(* ------------------------------------------------------------------ *)

\* C17: Stop is never called before Serve has been called: every Stop in
\* the call log has a Serve before it.
C17_StopOnlyAfterServe ==
    \A i \in CallsOf("Stop") : \E j \in 1..(i - 1) : calls[j].op = "Serve"

(* ------------------------------------------------------------------ *)
(* C18                                                                  *)
(* ------------------------------------------------------------------ *)

\* What runServer returns for the value it received on done.
Received(r) == IF IsClosed(r) THEN Nil ELSE r

\* C18: after a successful setup Serve is called, and only once; its result
\* is sent on done once and received once, as the value runServer's return is
\* made of; the serve goroutine never stays blocked on the send; and the
\* coordinator has returned exactly when the result has been handed over,
\* which happens whenever Serve returns.
C18_CompletionHandoff ==
    /\ []( /\ Cardinality(CallsOf("Serve")) <= 1
           /\ srvPc \in {"serve", "send", "done"} => Called("Serve")
           /\ notified => (Stopped <=> srvPc = "done")
           /\ (notified /\ Stopped) => retErr = Received(serveResult) )
    /\ [][ /\ srvPc = "send" => (srvPc' \in {"send", "done"} /\ serveResult' = serveResult)
           /\ srvPc = "done" => (srvPc' = "done" /\ serveResult' = serveResult
                                  /\ retErr' = retErr) ]_vars
    /\ (notified ~> Called("Serve"))
    /\ (srvPc = "send" ~> (srvPc = "done" /\ Stopped))

C18_Witness ==
    /\ pc = "exited"
    /\ srvPc = "done"
    /\ Cardinality(CallsOf("Serve")) = 1
    /\ serveResult = ErrServerClosed
    /\ retErr = Nil
    /\ exitCode = exitOK

====
